---- MODULE Spec2Model ----
(***************************************************************************)
(* A model of defang's compose support (src/pkg/cli/compose.go):           *)
(* createTarball (the build context packager), convertPort, convertPorts,  *)
(* convertPlatform, resolveEnv, NormalizeServiceName, LoadCompose and      *)
(* uploadTarball, and of the tracking goroutines of cmd/cli/track.go.      *)
(*                                                                         *)
(* A path is a sequence of name components; a file name is a string.  The  *)
(* strings that Go compares byte-wise are ranked by NameOrder.             *)
(***************************************************************************)
EXTENDS Integers, Sequences, FiniteSets, TLC

VARIABLES
    \* ---- the build context on disk and the arguments of createTarball
    fs,              \* relative path -> directory entry; <<>> is the context root
    dockerfileArg,   \* the dockerfile argument, as path components (<<>> is "")
    stat,            \* stat[r]: the ownership/timestamps of the tree at run r
    ctxDone,         \* the context has been cancelled
    \* ---- createTarball's locals and position
    pc,              \* "start", "walk", "done"
    run,             \* which packaging run this is (1 or 2)
    dockerfile,      \* the cleaned dockerfile path
    dockerignore,    \* the ignore file path in use
    pm,              \* the compiled patterns
    foundDockerfile,
    todo,            \* what WalkDir has still to visit, in its order
    tar,             \* the entries written to the tar writer so far
    bufLen,          \* buf.Len()
    checked,         \* the buf.Len() read by the last size check
    writes,          \* the Write calls made on the contextAwareWriter, in order
    fileCount,
    warnedMany,      \* the "more than 10 files" warning was printed
    retBuf, retErr,  \* what createTarball returned
    prevBuf,         \* what the previous run returned
    \* ---- the converters
    HadWarnings,     \* the process-wide flag
    env,             \* the process environment
    lastCall,        \* the last converter call: its input and what it returned
    \* ---- NormalizeServiceName
    svcName,         \* the name passed
    normalized,      \* the name returned
    normPc,          \* "start", "done"
    \* ---- LoadCompose
    manifest,        \* the Compose file(s) the path matches and the name declared
    loadCall,        \* the last load: its arguments and what it returned
    \* ---- uploadTarball
    upPc,            \* "idle", "url" (awaiting CreateUploadURL), "put" (awaiting the PUT), "done"
    upArgs,          \* the digest and body passed
    wire,            \* the requests sent so far, in order
    upRes,           \* what the service and the storage answered
    upRet,           \* what uploadTarball returned
    \* ---- track, flushAllTracking
    disableAnalytics,
    client,          \* "nil" until track connects
    trackWG,         \* the wait group's counter
    calls,           \* the number of track calls made
    goroutines,      \* the tracking goroutines started, in order: where each is
    mainPc,          \* "running", "waiting" (in trackWG.Wait), "flushed"
    flushedAt        \* the goroutines started when flushAllTracking was called

tarVars == <<fs, dockerfileArg, stat, ctxDone, pc, run, dockerfile, dockerignore, pm,
             foundDockerfile, todo, tar, bufLen, checked, writes, fileCount,
             warnedMany, retBuf, retErr, prevBuf>>
convVars == <<HadWarnings, env, lastCall>>
normVars == <<svcName, normalized, normPc>>
loadVars == <<manifest, loadCall>>
uploadVars == <<upPc, upArgs, wire, upRes, upRet>>
trackVars == <<disableAnalytics, client, trackWG, calls, goroutines, mainPc, flushedAt>>
restVars == <<loadVars, uploadVars, trackVars>>
vars == <<tarVars, convVars, normVars, restVars>>

----------------------------------------------------------------------------
(* Bounds of the model *)

\* the largest number of entries below the context root
MaxTreeSize == 5

\* the longest list of ports passed to convertPorts
MaxPorts == 2

\* the longest service name passed to NormalizeServiceName
MaxNameLen == 4

\* the longest project name declared by a manifest or passed to LoadCompose
MaxProjectNameLen == 2

\* the largest number of track calls
MaxTracks == 3

----------------------------------------------------------------------------
(* Constants of compose.go *)

MiB == 1024 * 1024
sourceDateEpoch == 315532800
\* the ceiling of the size check, 10*MiB
SizeLimit == 10 * MiB
\* the file count at which the warning is printed
WarnAtFileCount == 11

\* the parsed lines of an ignore file: a pattern is a literal path, optionally
\* negated ("!") and optionally prefixed with "**/"
Pat(p) == [kind |-> "pattern", neg |-> FALSE, anyDepth |-> FALSE, path |-> p]
Neg(p) == [kind |-> "pattern", neg |-> TRUE, anyDepth |-> FALSE, path |-> p]
Deep(p) == [kind |-> "pattern", neg |-> FALSE, anyDepth |-> TRUE, path |-> p]
CommentLine == [kind |-> "comment", neg |-> FALSE, anyDepth |-> FALSE, path |-> <<>>]
BlankLine == [kind |-> "blank", neg |-> FALSE, anyDepth |-> FALSE, path |-> <<>>]
MalformedLine == [kind |-> "malformed", neg |-> FALSE, anyDepth |-> FALSE, path |-> <<"[">>]

defaultDockerIgnore ==
    << CommentLine,
       Deep(<<".DS_Store">>), Deep(<<".direnv">>), Deep(<<".envrc">>), Deep(<<".git">>),
       Deep(<<".github">>), Deep(<<".idea">>), Deep(<<".next">>), Deep(<<".vscode">>),
       Deep(<<"__pycache__">>), Deep(<<"compose.yaml">>), Deep(<<"compose.yml">>),
       Deep(<<"defang.exe">>), Deep(<<"docker-compose.yml">>),
       Deep(<<"docker-compose.yaml">>), Deep(<<"node_modules">>), Deep(<<"Thumbs.db">>),
       CommentLine,
       Pat(<<"defang">>) >>

----------------------------------------------------------------------------
(* Paths *)

\* the file names of the model in Go's (byte-wise) string order
NameOrder == << ".dockerignore", ".git", "Dockerfile", "Dockerfile.dockerignore",
                "keep.txt", "sub", "sub.txt" >>

Rank(n) == CHOOSE i \in 1..Len(NameOrder) : NameOrder[i] = n

\* the context root as the caller names it
root == <<"ctx">>

IsPrefix(p, q) == Len(p) <= Len(q) /\ SubSeq(q, 1, Len(p)) = p

\* filepath.Join(root, rel)
Join(r, rel) == r \o rel

\* filepath.Rel(root, path) for a path below root
Rel(r, path) == SubSeq(path, Len(r) + 1, Len(path))

\* filepath.Clean, for the "." components it removes
Clean(p) == SelectSeq(p, LAMBDA c : c # ".")

\* the order in which WalkDir visits two paths: a directory before what it
\* holds, the entries of one directory by name
RECURSIVE WalkLess(_, _)
WalkLess(p, q) ==
    IF p = <<>> THEN q # <<>>
    ELSE IF q = <<>> THEN FALSE
    ELSE IF p[1] = q[1] THEN WalkLess(Tail(p), Tail(q))
    ELSE Rank(p[1]) < Rank(q[1])

RECURSIVE WalkOrder(_)
WalkOrder(S) ==
    IF S = {} THEN <<>>
    ELSE LET first == CHOOSE p \in S : \A q \in S \ {p} : WalkLess(p, q)
         IN  <<first>> \o WalkOrder(S \ {first})

----------------------------------------------------------------------------
(* The file system and what the libraries do with it *)

\* the header block the tar writer emits for one entry
HeaderLen == 512

Dir == [type |-> "dir", size |-> 0, gz |-> 0, data |-> "", lines |-> <<>>,
        readable |-> TRUE]

\* a regular file or a symlink: its content, the content's length, what gzip
\* makes of the content, its parsed lines when read as an ignore file
File(type, data, size, gz, lines, readable) ==
    [type |-> type, size |-> size, gz |-> gz, data |-> data, lines |-> lines,
     readable |-> readable]

\* os.Open(filepath.Join(cwd, name)) succeeds
CanOpen(rel) == rel \in DOMAIN fs /\ fs[rel].readable

\* tryReadIgnoreFile: the reader, or nil
tryReadIgnoreFile(rel) == CanOpen(rel) /\ fs[rel].type = "file"

\* ignorefile.ReadAll: comments and empty lines are dropped
ReadAll(lines) == SelectSeq(lines, LAMBDA l : l.kind \notin {"comment", "blank"})

\* patternmatcher.New fails on a malformed pattern
NewFails(patterns) == \E i \in 1..Len(patterns) : patterns[i].kind = "malformed"

\* one pattern against one path: a literal path, or with "**/" the path's end
PatternMatch(pat, file) ==
    IF pat.anyDepth
    THEN /\ Len(file) >= Len(pat.path)
         /\ SubSeq(file, Len(file) - Len(pat.path) + 1, Len(file)) = pat.path
    ELSE file = pat.path

\* patternmatcher's MatchesOrParentMatches: the patterns in order, each one
\* tried on the path and then on its parent directories; a later match
\* overrides an earlier one and a negated pattern un-ignores
RECURSIVE MatchFrom(_, _, _)
MatchFrom(pats, file, matched) ==
    IF pats = <<>> THEN matched
    ELSE LET pat == Head(pats)
             hit == \/ PatternMatch(pat, file)
                    \/ \E i \in 1..(Len(file) - 1) : PatternMatch(pat, SubSeq(file, 1, i))
         IN  IF pat.neg # matched THEN MatchFrom(Tail(pats), file, matched)
             ELSE MatchFrom(Tail(pats), file, IF hit THEN ~pat.neg ELSE matched)

MatchesOrParentMatches(pats, file) == MatchFrom(pats, file, FALSE)

\* filepath.ToSlash of a relative path: its components joined with "/"
RECURSIVE ToSlash(_)
ToSlash(rel) ==
    IF Len(rel) = 0 THEN ""
    ELSE IF Len(rel) = 1 THEN rel[1]
    ELSE rel[1] \o "/" \o ToSlash(Tail(rel))

\* the user and group databases the tar library looks names up in
UserName(uid) == IF uid = 0 THEN "root" ELSE "alice"
GroupName(gid) == IF gid = 0 THEN "root" ELSE "staff"

\* tar.FileInfoHeader(info, link): the header of an entry from its stat
FileInfoHeader(rel, e, st, link) ==
    [Name |-> rel[Len(rel)] \o (IF e.type = "dir" THEN "/" ELSE ""),
     Typeflag |-> e.type,
     Mode |-> st.perm,
     Size |-> IF e.type = "file" THEN e.size ELSE 0,
     Linkname |-> IF e.type = "symlink" THEN link ELSE "",
     ModTime |-> st.mtime,
     AccessTime |-> st.mtime,
     Uid |-> st.uid,
     Gid |-> st.gid,
     Uname |-> UserName(st.uid),
     Gname |-> GroupName(st.gid)]

\* tar.Writer.WriteHeader, the format left unset: the access time is dropped
WrittenHeader(h) == [h EXCEPT !.AccessTime = 0]

NoBuf == [nil |-> TRUE, entries |-> <<>>, len |-> 0]

----------------------------------------------------------------------------
(* createTarball *)

\* the locals of a run before it starts
FreshRun ==
    /\ dockerfile = <<>> /\ dockerignore = <<>> /\ pm = <<>>
    /\ foundDockerfile = FALSE /\ todo = <<>> /\ tar = <<>>
    /\ bufLen = 0 /\ checked = 0 /\ fileCount = 0 /\ warnedMany = FALSE
    /\ retBuf = NoBuf /\ retErr = "" /\ writes = <<>>

\* the dockerfile path in use: "Dockerfile" when none is given
DockerfilePath(arg) == IF arg = <<>> THEN <<"Dockerfile">> ELSE Clean(arg)

\* dockerfile + ".dockerignore"
SpecificIgnore(df) == [df EXCEPT ![Len(df)] = @ \o ".dockerignore"]

\* the ignore file in use: the Dockerfile's own one first, then .dockerignore
IgnoreFilePath(df) ==
    IF tryReadIgnoreFile(SpecificIgnore(df)) THEN SpecificIgnore(df)
    ELSE <<".dockerignore">>

\* the lines read: those of the ignore file in use, else the defaults
IgnoreLines(ign) ==
    IF tryReadIgnoreFile(ign) THEN fs[ign].lines ELSE defaultDockerIgnore

\* createTarball up to the walk: the ignore file is resolved and compiled
Begin ==
    /\ pc = "start"
    /\ LET df == DockerfilePath(dockerfileArg)
           ign == IgnoreFilePath(df)
           patterns == ReadAll(IgnoreLines(ign))
       IN  /\ dockerfile' = df
           /\ dockerignore' = ign
           /\ IF NewFails(patterns)
              THEN /\ pc' = "done"
                   /\ retErr' = "pattern"
                   /\ pm' = <<>>
                   /\ todo' = <<>>
              ELSE /\ pc' = "walk"
                   /\ retErr' = ""
                   /\ pm' = patterns
                   /\ todo' = IF <<>> \in DOMAIN fs THEN WalkOrder(DOMAIN fs)
                              ELSE << <<>> >>
    /\ UNCHANGED <<fs, dockerfileArg, stat, ctxDone, run, foundDockerfile, tar, bufLen,
                   checked, writes, fileCount, warnedMany, retBuf, prevBuf>>
    /\ UNCHANGED <<convVars, normVars, restVars>>

\* what the walk function decides for a relative path: the Dockerfile and the
\* ignore file are kept, anything else is matched against the patterns
Decision(relPath) ==
    IF ~foundDockerfile /\ relPath = dockerfile THEN "dockerfile"
    ELSE IF relPath = dockerignore THEN "dockerignore"
    ELSE IF MatchesOrParentMatches(pm, relPath) THEN "ignore"
    ELSE "add"

\* the header written for an entry: made reproducible, named by its slash path
EntryHeader(relPath, e, st) ==
    WrittenHeader([FileInfoHeader(relPath, e, st, relPath[Len(relPath)])
                      EXCEPT !.ModTime = sourceDateEpoch,
                             !.Gid = 0,
                             !.Uid = 0,
                             !.Name = ToSlash(relPath)])

\* the size check with the ceiling taken in the wrong unit
TooLarge_WrongUnit(len) == len > SizeLimit * 100

\* the size check after a file has been copied
TooLarge(len) == len > SizeLimit

\* a walk function that returns nil where it should return SkipDir
SkipDir_Descends(d, rest) == rest

\* WalkDir after SkipDir on a directory: nothing below it is visited
SkipDir(d, rest) == SelectSeq(rest, LAMBDA p : ~IsPrefix(d, p))

\* the walk function returns an error: WalkDir stops and createTarball
\* returns nil and the error
\* a Write that forwards to the wrapped writer whatever the context says
Write_Forwards(done, p, z) == [done |-> done, n |-> p, err |-> "", added |-> z]

\* contextAwareWriter.Write of p bytes, which the wrapped writer turns into z
\* bytes of the buffer: nothing is forwarded once the context is done
Write(done, p, z) ==
    IF done THEN [done |-> done, n |-> 0, err |-> "canceled", added |-> 0]
    ELSE [done |-> done, n |-> p, err |-> "", added |-> z]

WalkFails(err) ==
    /\ pc' = "done"
    /\ retErr' = err
    /\ retBuf' = NoBuf
    /\ todo' = todo

WalkGoesOn(rest) ==
    /\ pc' = "walk"
    /\ todo' = rest
    /\ UNCHANGED <<retErr, retBuf>>

\* One call of the walk function by WalkDir.  interrupted: the context is
\* cancelled while the call runs, after the header was written and before the
\* file's content is copied.
Visit(interrupted) ==
    /\ pc = "walk"
    /\ todo # <<>>
    /\ LET path == Join(root, Head(todo))
           relPath == Rel(root, path)
           rest == Tail(todo)
           decision == Decision(relPath)
       IN  IF path = root
           THEN \* the root itself: the error of a missing root, else no entry
                /\ ~interrupted
                /\ IF <<>> \in DOMAIN fs THEN WalkGoesOn(rest) ELSE WalkFails("io")
                /\ UNCHANGED <<foundDockerfile, tar, bufLen, checked, writes, fileCount,
                               warnedMany, ctxDone>>
           ELSE LET e == fs[relPath]
                    hdr == EntryHeader(relPath, e, stat[run])
                    copied == e.type = "file" /\ e.readable
                    cut == interrupted /\ e.size > 0
                    len == bufLen + HeaderLen + (IF copied /\ ~cut THEN e.gz ELSE 0)
                IN  /\ foundDockerfile' = (foundDockerfile \/ decision = "dockerfile")
                    /\ IF decision = "ignore"
                       THEN /\ ~interrupted
                            /\ WalkGoesOn(IF e.type = "dir" THEN SkipDir(relPath, rest)
                                          ELSE rest)
                            /\ UNCHANGED <<tar, bufLen, checked, writes, fileCount,
                                           warnedMany, ctxDone>>
                       ELSE IF ctxDone
                       THEN \* WriteHeader: the writer refuses the header
                            /\ ~interrupted
                            /\ WalkFails("canceled")
                            /\ writes' = Append(writes, Write(TRUE, HeaderLen, HeaderLen))
                            /\ UNCHANGED <<tar, bufLen, checked, fileCount, warnedMany,
                                           ctxDone>>
                       ELSE /\ interrupted => copied
                            /\ ctxDone' = interrupted
                            /\ tar' = Append(tar, [hdr |-> hdr,
                                                   data |-> IF copied /\ ~cut THEN e.data
                                                            ELSE "",
                                                   n |-> IF copied /\ ~cut THEN e.size
                                                         ELSE 0])
                            /\ bufLen' = len
                            /\ writes' =
                                  Append(writes, Write(FALSE, HeaderLen, HeaderLen))
                                  \o (IF copied /\ e.size > 0
                                      THEN << Write(cut, e.size, e.gz) >> ELSE <<>>)
                            /\ fileCount' = IF copied THEN fileCount + 1 ELSE fileCount
                            /\ warnedMany' = (warnedMany
                                               \/ (copied /\ fileCount + 1 = WarnAtFileCount))
                            /\ checked' = IF copied THEN len ELSE checked
                            /\ IF e.type # "file" THEN WalkGoesOn(rest)
                               ELSE IF ~e.readable THEN WalkFails("io")
                               ELSE IF TooLarge(len) THEN WalkFails("too large")
                               ELSE IF cut THEN WalkFails("canceled")
                               ELSE WalkGoesOn(rest)
    /\ UNCHANGED <<fs, dockerfileArg, stat, run, dockerfile, dockerignore, pm, prevBuf>>

\* the walk function, called by WalkDir for the next path
WalkFn ==
    /\ Visit(FALSE)
    /\ UNCHANGED <<convVars, normVars, restVars>>

\* the walk function, the context cancelled while it runs
WalkFnInterrupted ==
    /\ Visit(TRUE)
    /\ UNCHANGED <<convVars, normVars, restVars>>

\* the context is cancelled between two steps of the run
Cancel ==
    /\ pc \in {"start", "walk"}
    /\ ~ctxDone
    /\ ctxDone' = TRUE
    /\ UNCHANGED <<fs, dockerfileArg, stat, pc, run, dockerfile, dockerignore, pm,
                   foundDockerfile, todo, tar, bufLen, checked, writes, fileCount,
                   warnedMany, retBuf, retErr, prevBuf>>
    /\ UNCHANGED <<convVars, normVars, restVars>>

\* the end of createTarball without the check that the Dockerfile was seen
CloseError_Unchecked == IF ctxDone THEN "canceled" ELSE ""

\* what the end of createTarball returns as its error: the tar writer's
\* Close writes the trailer, then the Dockerfile must have been seen
CloseError ==
    IF ctxDone THEN "canceled"
    ELSE IF ~foundDockerfile THEN "dockerfile not found"
    ELSE ""

\* the end of createTarball, after a walk without error
Close ==
    /\ pc = "walk"
    /\ todo = <<>>
    /\ pc' = "done"
    /\ retErr' = CloseError
    /\ bufLen' = IF ctxDone THEN bufLen ELSE bufLen + 2 * HeaderLen
    /\ writes' = writes \o (IF ctxDone THEN << Write(TRUE, HeaderLen, HeaderLen) >>
                            ELSE << Write(FALSE, HeaderLen, HeaderLen),
                                    Write(FALSE, HeaderLen, HeaderLen) >>)
    /\ retBuf' = IF CloseError = "" THEN [nil |-> FALSE, entries |-> tar, len |-> bufLen']
                 ELSE NoBuf
    /\ UNCHANGED <<fs, dockerfileArg, stat, ctxDone, run, dockerfile, dockerignore, pm,
                   foundDockerfile, todo, tar, checked, fileCount, warnedMany, prevBuf>>
    /\ UNCHANGED <<convVars, normVars, restVars>>

\* the same context is packaged again, on the tree as it is then
Rerun ==
    /\ pc = "done"
    /\ run = 1
    /\ run' = 2
    /\ prevBuf' = retBuf
    /\ pc' = "start"
    /\ dockerfile' = <<>> /\ dockerignore' = <<>> /\ pm' = <<>>
    /\ foundDockerfile' = FALSE /\ todo' = <<>> /\ tar' = <<>>
    /\ bufLen' = 0 /\ checked' = 0 /\ fileCount' = 0 /\ warnedMany' = FALSE
    /\ retBuf' = NoBuf /\ retErr' = "" /\ writes' = <<>>
    /\ UNCHANGED <<fs, dockerfileArg, stat, ctxDone>>
    /\ UNCHANGED <<convVars, normVars, restVars>>

----------------------------------------------------------------------------
(* The contexts, arguments and stats the runs are checked on *)

DirPaths == { <<".git">>, <<"sub">> }

FilePaths == { <<".dockerignore">>, <<"Dockerfile">>, <<"Dockerfile.dockerignore">>,
               <<"sub", "Dockerfile">>, <<"sub", "Dockerfile.dockerignore">>,
               <<"sub", "keep.txt">>, <<"sub.txt">> }

\* an entry exists only inside an existing directory
Closed(S) == \A p \in S : Len(p) > 1 => SubSeq(p, 1, Len(p) - 1) \in S

Trees == { S \in SUBSET (DirPaths \cup FilePaths) :
             Cardinality(S) <= MaxTreeSize /\ Closed(S) }

DockerfileArgs == { <<>>, <<".", "Dockerfile">>, <<"sub", "Dockerfile">>,
                    <<"Dockerfile.missing">> }

\* what a .dockerignore at the root may hold
IgnoreContents ==
    { << CommentLine, Pat(<<"sub.txt">>) >>,
      << Pat(<<"sub">>), Neg(<<"sub", "keep.txt">>) >>,
      << Pat(<<"sub", "keep.txt">>), BlankLine, Neg(<<"sub">>) >>,
      << Deep(<<"Dockerfile">>), Pat(<<".dockerignore">>),
         Pat(<<"Dockerfile.dockerignore">>), Pat(<<"sub">>) >>,
      << MalformedLine >> }

\* what a Dockerfile.dockerignore holds
SpecificContents == << Pat(<<".git">>), Pat(<<"sub.txt">>), Deep(<<"keep.txt">>) >>

SmallStat == [mtime |-> sourceDateEpoch + 1, uid |-> 0, gid |-> 0, perm |-> "rw-r--r--"]

Stats == [mtime : {sourceDateEpoch + 1, sourceDateEpoch + 2}, uid : {0, 1000},
          gid : {0, 1000}, perm : {"rw-r--r--", "rwxr-xr-x"}]

\* the tree S on disk: sizes[p] and gzs[p] give a file's length and what gzip
\* makes of it
MakeFs(S, ignoreLines, keepType, readable, sizes, gzs) ==
    [p \in S \cup {<<>>} |->
        IF p = <<>> \/ p \in DirPaths THEN Dir
        ELSE File(IF p = <<"sub", "keep.txt">> THEN keepType ELSE "file",
                  ToSlash(p),
                  IF p = <<"sub", "keep.txt">> /\ keepType = "symlink" THEN 0 ELSE sizes[p],
                  IF p = <<"sub", "keep.txt">> /\ keepType = "symlink" THEN 0 ELSE gzs[p],
                  IF p = <<".dockerignore">> THEN ignoreLines
                  ELSE IF p[Len(p)] = "Dockerfile.dockerignore" THEN SpecificContents
                  ELSE <<>>,
                  p = <<"sub.txt">> => readable)]

\* a context directory that does not exist
NoFs == [p \in {} |-> Dir]

UnitSizes == [p \in FilePaths |-> 1]

NoCall == [op |-> "none", arg |-> <<>>, out |-> <<>>, err |-> "", before |-> FALSE]

ConvIdle ==
    /\ HadWarnings = FALSE
    /\ env = [k \in {} |-> ""]
    /\ lastCall = NoCall

\* no Compose file has been loaded
NoManifest == [files |-> 0, declared |-> FALSE, name |-> <<>>]
NoLoad == [fn |-> "none", arg |-> <<>>, project |-> [nil |-> TRUE, Name |-> <<>>], err |-> ""]
LoadIdle ==
    /\ manifest = NoManifest
    /\ loadCall = NoLoad

\* uploadTarball has not been called
NoUrl == [loc |-> "", query |-> ""]
NoAnswer == [url |-> NoUrl, urlErr |-> "", status |-> 0, putErr |-> ""]
UploadIdle ==
    /\ upPc = "idle"
    /\ upArgs = [digest |-> "", body |-> ""]
    /\ wire = <<>>
    /\ upRes = NoAnswer
    /\ upRet = [url |-> NoUrl, err |-> ""]

\* nothing has been tracked
TrackIdle ==
    /\ disableAnalytics = FALSE
    /\ client = "nil"
    /\ trackWG = 0
    /\ calls = 0
    /\ goroutines = <<>>
    /\ mainPc = "running"
    /\ flushedAt = 0

RestIdle == LoadIdle /\ UploadIdle /\ TrackIdle

NormIdle ==
    /\ svcName = <<>>
    /\ normalized = <<>>
    /\ normPc = "start"

TarStart ==
    /\ ctxDone = FALSE
    /\ pc = "start"
    /\ run = 1
    /\ prevBuf = NoBuf
    /\ FreshRun

\* contexts of every shape, small files
InitTar ==
    /\ \E S \in Trees, lines \in IgnoreContents, keepType \in {"file", "symlink"},
          readable \in BOOLEAN, exists \in BOOLEAN :
          /\ <<".dockerignore">> \notin S => lines = << MalformedLine >>
          /\ <<"sub", "keep.txt">> \notin S => keepType = "file"
          /\ <<"sub.txt">> \notin S => readable
          /\ ~exists => S = {}
          /\ fs = IF exists
                  THEN MakeFs(S, lines, keepType, readable, UnitSizes, UnitSizes)
                  ELSE NoFs
    /\ dockerfileArg \in DockerfileArgs
    /\ stat = <<SmallStat, SmallStat>>
    /\ TarStart
    /\ ConvIdle
    /\ NormIdle
    /\ RestIdle

NextTar == Begin \/ WalkFn \/ WalkFnInterrupted \/ Cancel \/ Close

SpecTar == InitTar /\ [][NextTar]_vars

\* one context packaged twice, its ownership, modes and timestamps changed
\* in between
ReproTrees == { {<<"Dockerfile">>},
                {<<"Dockerfile">>, <<"sub">>, <<"sub", "keep.txt">>} }

InitRepro ==
    /\ \E S \in ReproTrees, keepType \in {"file", "symlink"} :
          /\ <<"sub", "keep.txt">> \notin S => keepType = "file"
          /\ fs = MakeFs(S, <<>>, keepType, TRUE, UnitSizes, UnitSizes)
    /\ dockerfileArg = <<>>
    /\ stat \in Stats \X Stats
    /\ TarStart
    /\ ConvIdle
    /\ NormIdle
    /\ RestIdle

NextRepro == NextTar \/ Rerun

SpecRepro == InitRepro /\ [][NextRepro]_vars

\* contexts with large files, compressible or not
SizeTrees == { S \in SUBSET { <<"Dockerfile">>, <<"sub">>, <<"sub", "keep.txt">>,
                              <<"sub.txt">> } : Closed(S) /\ <<"Dockerfile">> \in S }

FileSizes == { 1, 6 * MiB, 11 * MiB }

\* what gzip makes of n bytes: nothing smaller for random bytes, about a
\* thousandth for a run of equal bytes
GzipLens(n) == { n, n \div 1000 }

InitSize ==
    /\ \E S \in SizeTrees, a \in FileSizes, b \in FileSizes :
          \E ga \in GzipLens(a), gb \in GzipLens(b) :
             /\ <<"sub", "keep.txt">> \notin S => (a = 1 /\ ga = 1)
             /\ <<"sub.txt">> \notin S => (b = 1 /\ gb = 1)
             /\ fs = MakeFs(S, <<>>, "file", TRUE,
                            [p \in FilePaths |-> IF p = <<"sub", "keep.txt">> THEN a
                                                 ELSE IF p = <<"sub.txt">> THEN b ELSE 1],
                            [p \in FilePaths |-> IF p = <<"sub", "keep.txt">> THEN ga
                                                 ELSE IF p = <<"sub.txt">> THEN gb ELSE 1])
    /\ dockerfileArg = <<>>
    /\ stat = <<SmallStat, SmallStat>>
    /\ TarStart
    /\ ConvIdle
    /\ NormIdle
    /\ RestIdle

SpecSize == InitSize /\ [][NextTar]_vars

----------------------------------------------------------------------------
(* Properties of createTarball *)

Succeeded == pc = "done" /\ retErr = ""

\* the names of the archive's entries, in the archive's order
EntryNames(entries) == [i \in 1..Len(entries) |-> entries[i].hdr.Name]

\* a path is ignored when it or one of its ancestor directories matches
Ignored(p) == \E i \in 1..Len(p) : MatchesOrParentMatches(pm, SubSeq(p, 1, i))

Reserved(p) == p = dockerfile \/ p = dockerignore

\* the entries a packaging of the context must hold, in walk order
ExpectedPaths ==
    SelectSeq(WalkOrder(DOMAIN fs \ {<<>>}), LAMBDA p : Reserved(p) \/ ~Ignored(p))

\* C1: when createTarball succeeds the archive's entry list is exactly the
\* paths below the root that are not ignored, plus the Dockerfile and the
\* ignore file in use, each named by its relative slash path, in the order of
\* the directory walk; the root has no entry
Thm_C1_EntryList ==
    Succeeded =>
        /\ ~retBuf.nil
        /\ EntryNames(retBuf.entries)
             = [i \in 1..Len(ExpectedPaths) |-> ToSlash(ExpectedPaths[i])]
        /\ \A i \in 1..Len(retBuf.entries) :
              /\ retBuf.entries[i].hdr.Name # ""
              /\ retBuf.entries[i].hdr.Name # ToSlash(root)

\* a successful run that pruned an ignored directory with something in it,
\* kept a Dockerfile and an ignore file that the patterns match, and added
\* other entries
Wit_C1_EntryList ==
    /\ Succeeded
    /\ \E d \in DOMAIN fs : \E p \in DOMAIN fs :
          /\ fs[d].type = "dir" /\ d # <<>> /\ Ignored(d)
          /\ p # d /\ IsPrefix(d, p)
    /\ dockerignore \in DOMAIN fs
    /\ \E p \in DOMAIN fs : p # <<>> /\ Reserved(p) /\ Ignored(p)
    /\ Len(retBuf.entries) >= 3

\* the walk has passed every path and no call of the walk function failed
WalkCompleted == pc = "done" /\ todo = <<>> /\ retErr # "pattern"

\* C3 as claimed: the Dockerfile and the ignore file in use, when they exist
\* below the context root, are never skipped: once the walk has passed them
\* the archive holds an entry for each, whatever the patterns match
Claim_C3_NeverExcluded ==
    (pc \in {"walk", "done"} /\ retErr \in {"", "dockerfile not found"}) =>
        \A p \in {dockerfile, dockerignore} \cap DOMAIN fs :
            \/ \E i \in 1..Len(todo) : todo[i] = p
            \/ \E i \in 1..Len(tar) : tar[i].hdr.Name = ToSlash(p)

\* the walk function is called for a path unless an ancestor directory was
\* skipped
Walked(p) ==
    /\ p \in DOMAIN fs
    /\ p # <<>>
    /\ \A i \in 1..(Len(p) - 1) :
          LET q == SubSeq(p, 1, i)
          IN  Reserved(q) \/ ~MatchesOrParentMatches(pm, q)

\* C5 as claimed: a walk without error that did not meet the Dockerfile makes
\* createTarball return the dockerfile-not-found error and no archive
Claim_C5_DockerfileNotFound ==
    (WalkCompleted /\ ~Walked(dockerfile)) =>
        (retErr = "dockerfile not found" /\ retBuf = NoBuf)

\* C5 amended: a walk without error that did not meet the Dockerfile makes
\* createTarball return no archive and an error, which is the
\* dockerfile-not-found error unless the context was cancelled before the tar
\* writer was closed (then it is the cancellation error); and an archive is
\* returned only if the walk met the Dockerfile
Thm_C5_DockerfileNotFound ==
    /\ (WalkCompleted /\ ~Walked(dockerfile)) =>
          /\ retBuf = NoBuf
          /\ retErr = (IF ctxDone THEN "canceled" ELSE "dockerfile not found")
    /\ (pc = "done" /\ ~retBuf.nil) => (retErr = "" /\ Walked(dockerfile))

\* a completed walk of a context that holds entries but not the Dockerfile,
\* ending in the dockerfile-not-found error
Wit_C5_DockerfileNotFound ==
    /\ WalkCompleted
    /\ ~Walked(dockerfile)
    /\ Len(tar) >= 2
    /\ retErr = "dockerfile not found"

\* the content bytes of the entries written
RECURSIVE ContentLen(_)
ContentLen(entries) ==
    IF entries = <<>> THEN 0 ELSE Head(entries).n + ContentLen(Tail(entries))

\* C4 as claimed: a context whose included content exceeds the ceiling always
\* fails with the size-limit error and no buffer
Claim_C4_SizeLimit ==
    (pc = "done" /\ ContentLen(tar) > SizeLimit) =>
        (retErr = "too large" /\ retBuf = NoBuf)

\* C4 amended: createTarball fails with the size-limit error, and then with
\* no buffer, exactly when the buffer of compressed output is longer than
\* the ceiling right after a regular file was copied
Thm_C4_SizeLimit ==
    /\ (pc = "done" /\ retErr = "too large") => (retBuf = NoBuf /\ checked > SizeLimit)
    /\ retErr # "too large" => checked <= SizeLimit

\* the size-limit error after a second file pushed the output over the ceiling
Wit_C4_SizeLimit ==
    /\ pc = "done"
    /\ retErr = "too large"
    /\ fileCount >= 2
    /\ \A i \in 1..Len(tar) : tar[i].n <= SizeLimit

\* C2 as claimed: two runs on trees with the same paths, types and contents
\* (and modes) return byte-identical archives whatever the modification
\* times, owners and groups are
Claim_C2_Reproducible ==
    (pc = "done" /\ run = 2 /\ ~prevBuf.nil /\ ~retBuf.nil
       /\ stat[1].perm = stat[2].perm) => retBuf = prevBuf

----------------------------------------------------------------------------
(* convertPort, convertPorts, convertPlatform, resolveEnv *)

\* the zero value of v1.Mode, which a port keeps when no case assigns one
Mode_Zero == "HOST"

NilPort == [Target |-> 0, Mode |-> "nil", Protocol |-> "nil"]

DigitChars == <<"0", "1", "2", "3", "4", "5", "6", "7", "8", "9">>

\* strconv.FormatUint(n, 10)
RECURSIVE FormatUint(_)
FormatUint(n) ==
    IF n < 10 THEN <<DigitChars[n + 1]>>
    ELSE FormatUint(n \div 10) \o <<DigitChars[(n % 10) + 1]>>

\* a target range check that takes every 16-bit port
TargetInRange_AnyPort(target) == target >= 1 /\ target <= 65535

TargetInRange(target) == ~(target < 1 \/ target > 32767)

\* the checks with host_ip looked at first
ValidationError_HostIPFirst(port) ==
    IF port.HostIP # "" THEN "host_ip"
    ELSE IF ~TargetInRange(port.Target) THEN "target"
    ELSE IF port.Published # <<>> /\ port.Published # FormatUint(port.Target)
    THEN "published"
    ELSE ""

\* the checks at the head of convertPort, in their order
ValidationError(port) ==
    IF ~TargetInRange(port.Target) THEN "target"
    ELSE IF port.HostIP # "" THEN "host_ip"
    ELSE IF port.Published # <<>> /\ port.Published # FormatUint(port.Target)
    THEN "published"
    ELSE ""

\* the switch on port.Protocol; "" when the protocol is not accepted
ProtocolOf(protocol) ==
    CASE protocol = "" -> "ANY"
      [] protocol = "tcp" -> "TCP"
      [] protocol = "udp" -> "UDP"
      [] protocol = "http" -> "HTTP"
      [] protocol = "http2" -> "HTTP2"
      [] protocol = "grpc" -> "GRPC"
      [] OTHER -> ""

\* the switch on port.Mode with tcp and udp kept in ingress mode
ResolveMode_KeepsTcp(port, pbPort) ==
    CASE port.Mode = "" ->
            [port |-> [pbPort EXCEPT !.Mode = "HOST"], err |-> "", warn |-> TRUE]
      [] port.Mode = "host" ->
            [port |-> [pbPort EXCEPT !.Mode = "HOST"], err |-> "", warn |-> FALSE]
      [] port.Mode = "ingress" ->
            IF port.Published # <<>>
            THEN [port |-> pbPort, err |-> "", warn |-> TRUE]
            ELSE [port |-> [pbPort EXCEPT !.Mode = "INGRESS"], err |-> "", warn |-> FALSE]
      [] OTHER -> [port |-> NilPort, err |-> "mode", warn |-> FALSE]

\* the switch on port.Mode: the port, the error, and whether a warning was
\* logged and HadWarnings set
ResolveMode(port, pbPort) ==
    CASE port.Mode = "" ->
            [port |-> [pbPort EXCEPT !.Mode = "HOST"], err |-> "", warn |-> TRUE]
      [] port.Mode = "host" ->
            [port |-> [pbPort EXCEPT !.Mode = "HOST"], err |-> "", warn |-> FALSE]
      [] port.Mode = "ingress" ->
            IF port.Published # <<>>
            THEN [port |-> pbPort, err |-> "", warn |-> TRUE]
            ELSE IF pbPort.Protocol = "TCP" \/ pbPort.Protocol = "UDP"
            THEN [port |-> [pbPort EXCEPT !.Mode = "INGRESS", !.Protocol = "HTTP"],
                  err |-> "", warn |-> TRUE]
            ELSE [port |-> [pbPort EXCEPT !.Mode = "INGRESS"], err |-> "", warn |-> FALSE]
      [] OTHER -> [port |-> NilPort, err |-> "mode", warn |-> FALSE]

convertPort(port) ==
    IF ValidationError(port) # ""
    THEN [port |-> NilPort, err |-> ValidationError(port), warn |-> FALSE]
    ELSE IF ProtocolOf(port.Protocol) = ""
    THEN [port |-> NilPort, err |-> "protocol", warn |-> FALSE]
    ELSE ResolveMode(port, [Target |-> port.Target, Mode |-> Mode_Zero,
                            Protocol |-> ProtocolOf(port.Protocol)])

\* convertPorts: the ports in order, up to the first that fails
RECURSIVE convertPortsFrom(_, _, _)
convertPortsFrom(ports, pbports, warn) ==
    IF ports = <<>> THEN [ports |-> pbports, err |-> "", warn |-> warn]
    ELSE LET r == convertPort(Head(ports))
         IN  IF r.err # "" THEN [ports |-> <<>>, err |-> r.err, warn |-> warn \/ r.warn]
             ELSE convertPortsFrom(Tail(ports), Append(pbports, r.port), warn \/ r.warn)

convertPorts(ports) == convertPortsFrom(ports, <<>>, FALSE)

\* a convertPlatform that falls back without a warning
convertPlatform_Silent(platform) ==
    CASE platform \in {"", "linux"} -> [platform |-> "LINUX_ANY", warn |-> FALSE]
      [] platform = "linux/amd64" -> [platform |-> "LINUX_AMD64", warn |-> FALSE]
      [] platform \in {"linux/arm64", "linux/arm64/v8", "linux/arm64/v7", "linux/arm64/v6"}
            -> [platform |-> "LINUX_ARM64", warn |-> FALSE]
      [] OTHER -> [platform |-> "LINUX_ANY", warn |-> FALSE]

convertPlatform(platform) ==
    CASE platform \in {"", "linux"} -> [platform |-> "LINUX_ANY", warn |-> FALSE]
      [] platform = "linux/amd64" -> [platform |-> "LINUX_AMD64", warn |-> FALSE]
      [] platform \in {"linux/arm64", "linux/arm64/v8", "linux/arm64/v7", "linux/arm64/v6"}
            -> [platform |-> "LINUX_ARM64", warn |-> FALSE]
      [] OTHER -> [platform |-> "LINUX_ANY", warn |-> TRUE]

\* resolveEnv: a pointer to the value, or nil and a warning
resolveEnv(k) ==
    IF k \in DOMAIN env THEN [set |-> TRUE, value |-> env[k], warn |-> FALSE]
    ELSE [set |-> FALSE, value |-> "", warn |-> TRUE]

\* a warning path assigns HadWarnings = true; nothing else touches the flag
Warned(warn) == HadWarnings' = (IF warn THEN TRUE ELSE HadWarnings)

\* the call returns
Returned(op, arg, out, err) ==
    lastCall' = [op |-> op, arg |-> arg, out |-> out, err |-> err,
                 before |-> HadWarnings]

\* the port specs the calls are made with
Targets == {0, 1, 1234, 32767, 32768}

PublishedValues == { <<>>, <<"1">>, <<"1", "2", "3", "4">>, <<"0", "1">>,
                     <<"1", "1", "1", "1", "-", "2", "2", "2", "2">> }

PortSpecs == [Target : Targets, HostIP : {"", "127.0.0.1"}, Published : PublishedValues,
              Protocol : {"", "tcp", "udp", "http", "http2", "grpc", "sctp"},
              Mode : {"", "host", "ingress", "bridge"}]

PortSamples ==
    { [Target |-> 1234, HostIP |-> "", Published |-> <<>>, Protocol |-> "http",
       Mode |-> "host"],
      [Target |-> 1234, HostIP |-> "", Published |-> <<>>, Protocol |-> "",
       Mode |-> ""],
      [Target |-> 1, HostIP |-> "", Published |-> <<"1">>, Protocol |-> "tcp",
       Mode |-> "ingress"],
      [Target |-> 1234, HostIP |-> "127.0.0.1", Published |-> <<>>, Protocol |-> "tcp",
       Mode |-> "ingress"] }

RECURSIVE SeqsUpTo(_, _)
SeqsUpTo(S, n) ==
    IF n = 0 THEN { <<>> }
    ELSE SeqsUpTo(S, n - 1)
         \cup { Append(q, x) : q \in { r \in SeqsUpTo(S, n - 1) : Len(r) = n - 1 }, x \in S }

Platforms == {"", "linux", "linux/amd64", "linux/arm64", "linux/arm64/v8",
              "linux/arm64/v7", "linux/arm64/v6", "windows/amd64"}

EnvKeys == {"HOME", "API_KEY"}

CallConvertPort ==
    \E port \in PortSpecs :
        LET r == convertPort(port)
        IN  /\ Warned(r.warn)
            /\ Returned("convertPort", port, r.port, r.err)
            /\ UNCHANGED <<env, tarVars, normVars, restVars>>

CallConvertPorts ==
    \E ports \in SeqsUpTo(PortSamples, MaxPorts) :
        LET r == convertPorts(ports)
        IN  /\ Warned(r.warn)
            /\ Returned("convertPorts", ports, r.ports, r.err)
            /\ UNCHANGED <<env, tarVars, normVars, restVars>>

CallConvertPlatform ==
    \E platform \in Platforms :
        LET r == convertPlatform(platform)
        IN  /\ Warned(r.warn)
            /\ Returned("convertPlatform", platform, r.platform, "")
            /\ UNCHANGED <<env, tarVars, normVars, restVars>>

CallResolveEnv ==
    \E k \in EnvKeys :
        LET r == resolveEnv(k)
        IN  /\ Warned(r.warn)
            /\ Returned("resolveEnv", k, [set |-> r.set, value |-> r.value], "")
            /\ UNCHANGED <<env, tarVars, normVars, restVars>>

InitConv ==
    /\ HadWarnings = FALSE
    /\ env = [k \in {"HOME"} |-> "/root"]
    /\ lastCall = NoCall
    /\ fs = NoFs
    /\ dockerfileArg = <<>>
    /\ stat = <<SmallStat, SmallStat>>
    /\ TarStart
    /\ NormIdle
    /\ RestIdle

NextConv == CallConvertPort \/ CallConvertPorts \/ CallConvertPlatform \/ CallResolveEnv

SpecConv == InitConv /\ [][NextConv]_vars

----------------------------------------------------------------------------
(* Properties of the converters *)

AcceptedProtocols == {"", "tcp", "udp", "http", "http2", "grpc"}

AcceptedModes == {"", "host", "ingress"}

\* the descriptor's protocol for an accepted protocol of the port spec
ClaimedProtocol(protocol) ==
    CASE protocol = "" -> "ANY"
      [] protocol = "tcp" -> "TCP"
      [] protocol = "udp" -> "UDP"
      [] protocol = "http" -> "HTTP"
      [] protocol = "http2" -> "HTTP2"
      [] protocol = "grpc" -> "GRPC"

\* the number a string of decimal digits denotes
RECURSIVE DecimalValue(_)
DecimalValue(digits) ==
    IF digits = <<>> THEN 0
    ELSE 10 * DecimalValue(SubSeq(digits, 1, Len(digits) - 1))
         + ((CHOOSE i \in 1..10 : DigitChars[i] = digits[Len(digits)]) - 1)

\* the string is the decimal text of n: digits only, no leading zero
IsDecimalOf(str, n) ==
    /\ str # <<>>
    /\ \A i \in 1..Len(str) : \E d \in 1..10 : DigitChars[d] = str[i]
    /\ (Len(str) > 1 => str[1] # "0")
    /\ DecimalValue(str) = n

\* the first rule a port spec violates, in the order target range, host_ip,
\* published, protocol, mode
FirstViolation(port) ==
    IF port.Target \notin 1..32767 THEN "target"
    ELSE IF port.HostIP # "" THEN "host_ip"
    ELSE IF port.Published # <<>> /\ ~IsDecimalOf(port.Published, port.Target)
    THEN "published"
    ELSE IF port.Protocol \notin AcceptedProtocols THEN "protocol"
    ELSE IF port.Mode \notin AcceptedModes THEN "mode"
    ELSE ""

\* C6: a port spec that passes validation is converted with its target
\* unchanged and its mode and protocol resolved: no mode gives HOST with a
\* warning, host gives HOST, ingress with a published value gives HOST with
\* a warning and the protocol as mapped, ingress with tcp or udp and nothing
\* published gives INGRESS over HTTP with a warning, any other ingress port
\* is INGRESS with its protocol unchanged
Thm_C6_ModeResolution ==
    (lastCall.op = "convertPort" /\ lastCall.err = "") =>
        LET port == lastCall.arg
            pb == lastCall.out
        IN  /\ pb.Target = port.Target
            /\ port.Mode \in AcceptedModes
            /\ port.Mode = "" =>
                  /\ pb.Mode = "HOST" /\ pb.Protocol = ClaimedProtocol(port.Protocol)
                  /\ HadWarnings
            /\ port.Mode = "host" =>
                  /\ pb.Mode = "HOST" /\ pb.Protocol = ClaimedProtocol(port.Protocol)
                  /\ HadWarnings = lastCall.before
            /\ (port.Mode = "ingress" /\ port.Published # <<>>) =>
                  /\ pb.Mode = "HOST" /\ pb.Protocol = ClaimedProtocol(port.Protocol)
                  /\ HadWarnings
            /\ (port.Mode = "ingress" /\ port.Published = <<>>
                  /\ port.Protocol \in {"tcp", "udp"}) =>
                  /\ pb.Mode = "INGRESS" /\ pb.Protocol = "HTTP"
                  /\ HadWarnings
            /\ (port.Mode = "ingress" /\ port.Published = <<>>
                  /\ port.Protocol \notin {"tcp", "udp"}) =>
                  /\ pb.Mode = "INGRESS" /\ pb.Protocol = ClaimedProtocol(port.Protocol)
                  /\ HadWarnings = lastCall.before

\* an ingress tcp port published on its target has been converted, with no
\* warning before it
Wit_C6_ModeResolution ==
    /\ lastCall.op = "convertPort"
    /\ lastCall.err = ""
    /\ lastCall.arg.Mode = "ingress"
    /\ lastCall.arg.Protocol = "tcp"
    /\ lastCall.arg.Published = <<"1", "2", "3", "4">>
    /\ lastCall.out = [Target |-> 1234, Mode |-> "HOST", Protocol |-> "TCP"]
    /\ ~lastCall.before

\* C7: convertPort returns the error of the first rule the port spec
\* violates, in the order target range, host_ip, published, protocol, mode,
\* and then no descriptor; a port spec with a host_ip always fails
Thm_C7_CheckOrder ==
    lastCall.op = "convertPort" =>
        /\ lastCall.err = FirstViolation(lastCall.arg)
        /\ lastCall.err # "" => lastCall.out = NilPort
        /\ lastCall.err = "" => lastCall.out # NilPort
        /\ lastCall.arg.HostIP # "" => lastCall.err # ""

\* a port spec that violates the host_ip, published, protocol and mode rules
\* at once has been refused for its host_ip
Wit_C7_CheckOrder ==
    /\ lastCall.op = "convertPort"
    /\ lastCall.arg.Target = 1234
    /\ lastCall.arg.HostIP # ""
    /\ lastCall.arg.Published = <<"0", "1">>
    /\ lastCall.arg.Protocol = "sctp"
    /\ lastCall.arg.Mode = "bridge"
    /\ lastCall.err = "host_ip"

\* C8: a target outside [1,32767] makes convertPort fail with the
\* target-range error and no descriptor, whatever the other fields are; a
\* target inside the range never gets that error
Thm_C8_TargetRange ==
    lastCall.op = "convertPort" =>
        IF lastCall.arg.Target < 1 \/ lastCall.arg.Target > 32767
        THEN lastCall.err = "target" /\ lastCall.out = NilPort
        ELSE lastCall.err # "target"

\* the first target above the range has been refused on an otherwise valid
\* port spec
Wit_C8_TargetRange ==
    /\ lastCall.op = "convertPort"
    /\ lastCall.arg = [Target |-> 32768, HostIP |-> "", Published |-> <<>>,
                       Protocol |-> "http", Mode |-> "host"]
    /\ lastCall.err = "target"

\* a valid port spec whose conversion logs a warning
PortWarns(port) ==
    /\ FirstViolation(port) = ""
    /\ \/ port.Mode = ""
       \/ port.Mode = "ingress" /\ port.Published # <<>>
       \/ port.Mode = "ingress" /\ port.Protocol \in {"tcp", "udp"}

\* the call takes a warning path
WarningPath(call) ==
    CASE call.op = "convertPort" -> PortWarns(call.arg)
      [] call.op = "convertPorts" ->
            \E i \in 1..Len(call.arg) :
                /\ PortWarns(call.arg[i])
                /\ \A j \in 1..(i - 1) : FirstViolation(call.arg[j]) = ""
      [] call.op = "convertPlatform" ->
            call.arg \notin {"", "linux", "linux/amd64", "linux/arm64", "linux/arm64/v8",
                             "linux/arm64/v7", "linux/arm64/v6"}
      [] call.op = "resolveEnv" -> call.arg \notin DOMAIN env
      [] OTHER -> FALSE

\* C9 as claimed: every call that takes a warning path returns a non-error
\* result and sets HadWarnings, no call resets the flag, and the flag is set
\* after a call if and only if it was set before or the call took a warning
\* path
Claim_C9_WarningsAccumulate ==
    lastCall.op # "none" =>
        /\ WarningPath(lastCall) => lastCall.err = ""
        /\ HadWarnings <=> (lastCall.before \/ WarningPath(lastCall))

\* C9 amended: a warning never turns a call into an error and warnings only
\* accumulate: a convertPort, convertPlatform or resolveEnv call on a warning
\* path returns its normal non-error result, a convertPorts call fails
\* exactly when one of its port specs is invalid by itself (also after an
\* earlier port of the list has warned), every call on a warning path sets
\* HadWarnings, no call resets the flag, and the flag is set after a call
\* if and only if it was set before or the call took a warning path
Thm_C9_WarningsAccumulate ==
    lastCall.op # "none" =>
        /\ lastCall.before => HadWarnings
        /\ WarningPath(lastCall) => HadWarnings
        /\ HadWarnings => (lastCall.before \/ WarningPath(lastCall))
        /\ (WarningPath(lastCall) /\ lastCall.op = "convertPort") => lastCall.err = ""
        /\ lastCall.op = "convertPorts" =>
              /\ lastCall.err = "" <=>
                    \A i \in 1..Len(lastCall.arg) : FirstViolation(lastCall.arg[i]) = ""
              /\ lastCall.err = "" => Len(lastCall.out) = Len(lastCall.arg)
        /\ (WarningPath(lastCall) /\ lastCall.op = "convertPlatform") =>
              (lastCall.err = "" /\ lastCall.out = "LINUX_ANY")
        /\ (WarningPath(lastCall) /\ lastCall.op = "resolveEnv") =>
              (lastCall.err = "" /\ ~lastCall.out.set)

\* a list whose first port warned and whose second port is invalid has been
\* converted while the flag was clear: the call failed and the flag is set
Wit_C9_WarningsAccumulate ==
    /\ lastCall.op = "convertPorts"
    /\ Len(lastCall.arg) = 2
    /\ PortWarns(lastCall.arg[1])
    /\ FirstViolation(lastCall.arg[2]) # ""
    /\ lastCall.err # ""
    /\ ~lastCall.before
    /\ HadWarnings

----------------------------------------------------------------------------
(* NormalizeServiceName *)

\* a string is the sequence of its characters; a character outside ASCII is
\* written as its code point: U+00C9 is E with acute, U+00E9 its lower case,
\* U+212A the Kelvin sign, whose lower case is the ASCII letter k
LowerLetters == {"a", "b", "c", "d", "e", "f", "g", "h", "i", "j", "k", "l", "m",
                 "n", "o", "p", "q", "r", "s", "t", "u", "v", "w", "x", "y", "z"}

UpperLetters == {"A", "B", "C", "D", "E", "F", "G", "H", "I", "J", "K", "L", "M",
                 "N", "O", "P", "Q", "R", "S", "T", "U", "V", "W", "X", "Y", "Z"}

Digits == {"0", "1", "2", "3", "4", "5", "6", "7", "8", "9"}

\* unicode.ToLower on the upper-case characters of the model
LowerOf == [c \in {"B", "Z", "U+00C9", "U+212A"} |->
               CASE c = "B" -> "b"
                 [] c = "Z" -> "z"
                 [] c = "U+00C9" -> "U+00E9"
                 [] c = "U+212A" -> "k"]

\* strings.ToLower, character by character
ToLower(str) == [i \in 1..Len(str) |->
                    IF str[i] \in DOMAIN LowerOf THEN LowerOf[str[i]] ELSE str[i]]

\* the character class of nonAlphanumeric: [^a-zA-Z0-9]
NonAlphanumeric(c) == c \notin (LowerLetters \cup UpperLetters \cup Digits)

\* a replacement that puts one hyphen for every character matched
RECURSIVE ReplaceAll_PerChar(_)
ReplaceAll_PerChar(str) ==
    IF str = <<>> THEN <<>>
    ELSE IF NonAlphanumeric(Head(str)) THEN <<"-">> \o ReplaceAll_PerChar(Tail(str))
    ELSE <<Head(str)>> \o ReplaceAll_PerChar(Tail(str))

\* what is left of the string after the match of [^a-zA-Z0-9]+ at its head
RECURSIVE AfterRun(_)
AfterRun(str) ==
    IF str # <<>> /\ NonAlphanumeric(Head(str)) THEN AfterRun(Tail(str)) ELSE str

\* nonAlphanumeric.ReplaceAllLiteralString(str, "-"): each leftmost longest
\* match, left to right, becomes "-"
RECURSIVE ReplaceAll(_)
ReplaceAll(str) ==
    IF str = <<>> THEN <<>>
    ELSE IF NonAlphanumeric(Head(str)) THEN <<"-">> \o ReplaceAll(AfterRun(str))
    ELSE <<Head(str)>> \o ReplaceAll(Tail(str))

NormalizeServiceName(str) == ReplaceAll(ToLower(str))

\* the characters the names are made of
NameChars == {"a", "B", "7", "-", "_", "$", "U+00C9", "U+212A"}

\* NormalizeServiceName is called with the name
CallNormalize ==
    /\ normPc = "start"
    /\ normalized' = NormalizeServiceName(svcName)
    /\ normPc' = "done"
    /\ UNCHANGED svcName
    /\ UNCHANGED <<tarVars, convVars, restVars>>

\* NormalizeServiceName is called again, with the name it returned
CallNormalizeAgain ==
    /\ normPc = "done"
    /\ svcName' = normalized
    /\ normalized' = NormalizeServiceName(normalized)
    /\ UNCHANGED normPc
    /\ UNCHANGED <<tarVars, convVars, restVars>>

InitNorm ==
    /\ svcName \in SeqsUpTo(NameChars, MaxNameLen)
    /\ normalized = <<>>
    /\ normPc = "start"
    /\ fs = NoFs
    /\ dockerfileArg = <<>>
    /\ stat = <<SmallStat, SmallStat>>
    /\ TarStart
    /\ ConvIdle
    /\ RestIdle

NextNorm == CallNormalize \/ CallNormalizeAgain

SpecNorm == InitNorm /\ [][NextNorm]_vars

\* the maximal runs of non-alphanumeric characters of a string, counted
NonAlnumRuns(str) ==
    Cardinality({ i \in 1..Len(str) :
                    /\ NonAlphanumeric(str[i])
                    /\ (i = 1 \/ ~NonAlphanumeric(str[i - 1])) })

\* the alphanumeric characters of a string, in order
Alphanumerics(str) == SelectSeq(str, LAMBDA c : ~NonAlphanumeric(c))

\* C10 as claimed: NormalizeServiceName is idempotent, its result holds only
\* lower-case letters, digits and hyphens, no two hyphens in a row, every
\* maximal run of non-alphanumeric characters of the input has become
\* exactly one hyphen, and a leading run has become a leading hyphen
Claim_C10_Normalize ==
    normPc = "done" =>
        /\ NormalizeServiceName(normalized) = normalized
        /\ \A i \in 1..Len(normalized) :
              normalized[i] \in LowerLetters \cup Digits \cup {"-"}
        /\ \A i \in 1..(Len(normalized) - 1) :
              ~(normalized[i] = "-" /\ normalized[i + 1] = "-")
        /\ Len(SelectSeq(normalized, LAMBDA c : c = "-")) = NonAlnumRuns(svcName)
        /\ (svcName # <<>> /\ NonAlphanumeric(svcName[1])) => normalized[1] = "-"

\* C10 amended: NormalizeServiceName is idempotent; its result holds only
\* lower-case letters, digits and hyphens, no two hyphens in a row; every
\* maximal run of non-alphanumeric characters of the lower-cased input has
\* become exactly one hyphen, the other characters of the lower-cased input
\* are kept in order, and a lower-cased input that starts with a
\* non-alphanumeric character gives a result that starts with a hyphen
Thm_C10_Normalize ==
    normPc = "done" =>
        /\ NormalizeServiceName(normalized) = normalized
        /\ \A i \in 1..Len(normalized) :
              normalized[i] \in LowerLetters \cup Digits \cup {"-"}
        /\ \A i \in 1..(Len(normalized) - 1) :
              ~(normalized[i] = "-" /\ normalized[i + 1] = "-")
        /\ Len(normalized)
             = Len(Alphanumerics(ToLower(svcName))) + NonAlnumRuns(ToLower(svcName))
        /\ SelectSeq(normalized, LAMBDA c : c # "-") = Alphanumerics(ToLower(svcName))
        /\ \A i \in 1..Len(svcName) :
              LET low == ToLower(svcName)
                  upto == SubSeq(low, 1, i)
                  at == Len(Alphanumerics(upto)) + NonAlnumRuns(upto)
              IN  normalized[at] = IF NonAlphanumeric(low[i]) THEN "-" ELSE low[i]
        /\ (svcName # <<>> /\ NonAlphanumeric(ToLower(svcName)[1])) => normalized[1] = "-"

\* a name with a leading symbol, a run of two symbols and an upper-case
\* letter has been normalized
Wit_C10_Normalize ==
    /\ normPc = "done"
    /\ svcName = <<"$", "B", "_", "-">>
    /\ normalized = <<"-", "b", "-">>
    /\ NonAlnumRuns(svcName) = 2

----------------------------------------------------------------------------
(* LoadCompose, LoadComposeWithProjectName *)

\* createTarball has not been called
TarIdle ==
    /\ fs = NoFs
    /\ dockerfileArg = <<>>
    /\ stat = <<SmallStat, SmallStat>>
    /\ TarStart

\* the characters a project name may hold
ProjectNameValid == LowerLetters \cup Digits \cup {"_", "-"}

RECURSIVE TrimLeft(_)
TrimLeft(str) ==
    IF str # <<>> /\ Head(str) \in {"_", "-"} THEN TrimLeft(Tail(str)) ELSE str

\* the loader's NormalizeProjectName: lower case, the other characters
\* dropped, leading "_" and "-" trimmed
NormalizeProjectName(str) ==
    TrimLeft(SelectSeq(ToLower(str), LAMBDA c : c \in ProjectNameValid))

NoProject == [nil |-> TRUE, Name |-> <<>>]

\* loader.Load with SetProjectName(name, imperative): an imperative name is
\* taken as it is, otherwise the name the file declares wins over the one
\* passed; an empty or non-normalized name, and a declared name the schema
\* rejects, fail the load
Load(m, name, imperative) ==
    LET fromFile == IF m.declared THEN NormalizeProjectName(m.name) ELSE <<>>
        pn == IF ~imperative /\ fromFile # <<>> THEN fromFile ELSE name
    IN  IF pn = <<>> THEN [project |-> NoProject, err |-> "project name must not be empty"]
        ELSE IF NormalizeProjectName(pn) # pn
        THEN [project |-> NoProject, err |-> "invalid project name"]
        ELSE IF m.declared /\ (m.name = <<>> \/ NormalizeProjectName(m.name) # m.name)
        THEN [project |-> NoProject, err |-> "validating: name does not match pattern"]
        ELSE [project |-> [nil |-> FALSE, Name |-> pn], err |-> ""]

loadCompose(m, projectName, overrideProjectName) ==
    IF m.files > 1 THEN [project |-> NoProject, err |-> "multiple Compose files found"]
    ELSE IF m.files = 0 THEN [project |-> NoProject, err |-> "no such file"]
    ELSE Load(m, ToLower(projectName), overrideProjectName)

LoadCompose(m, tenantID) == loadCompose(m, tenantID, FALSE)

\* a LoadComposeWithProjectName that passes its name as a fallback
LoadComposeWithProjectName_AsFallback(m, projectName) == loadCompose(m, projectName, FALSE)

LoadComposeWithProjectName(m, projectName) == loadCompose(m, projectName, TRUE)

\* the names declared and passed
ProjectNameChars == {"a", "B", "-", "."}
ProjectNames == SeqsUpTo(ProjectNameChars, MaxProjectNameLen)

\* the path matches no file, one file without a name, one file that declares
\* a name, or two files
Manifests ==
    { [files |-> n, declared |-> FALSE, name |-> <<>>] : n \in {0, 1, 2} }
    \cup { [files |-> 1, declared |-> TRUE, name |-> nm] : nm \in ProjectNames \ {<<>>} }

CallLoadCompose ==
    \E tenantID \in ProjectNames :
        LET r == LoadCompose(manifest, tenantID)
        IN  /\ loadCall' = [fn |-> "LoadCompose", arg |-> tenantID,
                            project |-> r.project, err |-> r.err]
            /\ UNCHANGED <<manifest, tarVars, convVars, normVars, uploadVars, trackVars>>

CallLoadComposeWithProjectName ==
    \E projectName \in ProjectNames :
        LET r == LoadComposeWithProjectName(manifest, projectName)
        IN  /\ loadCall' = [fn |-> "LoadComposeWithProjectName", arg |-> projectName,
                            project |-> r.project, err |-> r.err]
            /\ UNCHANGED <<manifest, tarVars, convVars, normVars, uploadVars, trackVars>>

InitLoad ==
    /\ manifest \in Manifests
    /\ loadCall = NoLoad
    /\ TarIdle
    /\ ConvIdle
    /\ NormIdle
    /\ UploadIdle
    /\ TrackIdle

NextLoad == CallLoadCompose \/ CallLoadComposeWithProjectName

SpecLoad == InitLoad /\ [][NextLoad]_vars

\* C11: a load that yields a project names it after the manifest's declared
\* name when LoadCompose is called on a manifest that declares one, whatever
\* tenant identifier is passed, after the lower-cased tenant identifier when
\* the manifest declares none, and after the lower-cased name passed when
\* LoadComposeWithProjectName is called, whether or not the manifest declares
\* a name; a load that fails yields no project
Thm_C11_ProjectName ==
    /\ (loadCall.fn = "LoadCompose" /\ loadCall.err = "") =>
          /\ ~loadCall.project.nil
          /\ loadCall.project.Name =
                (IF manifest.declared THEN manifest.name ELSE ToLower(loadCall.arg))
    /\ (loadCall.fn = "LoadComposeWithProjectName" /\ loadCall.err = "") =>
          /\ ~loadCall.project.nil
          /\ loadCall.project.Name = ToLower(loadCall.arg)
    /\ loadCall.err # "" => loadCall.project.nil

\* a manifest that declares a name has been loaded with another name as the
\* override, and the project carries the lower-cased override
Wit_C11_ProjectName ==
    /\ loadCall.fn = "LoadComposeWithProjectName"
    /\ manifest.declared
    /\ manifest.name = <<"a", "-">>
    /\ loadCall.arg = <<"B", "a">>
    /\ loadCall.err = ""
    /\ loadCall.project.Name = <<"b", "a">>

----------------------------------------------------------------------------
(* uploadTarball *)

\* a URL is its location (scheme, host, path) and its query string
RemoveQueryParam(url) == [url EXCEPT !.query = ""]

\* the request client.CreateUploadURL sends
UploadURLRequest(digest) == [kind |-> "CreateUploadURL", digest |-> digest]

\* the request http.Put sends
Put(url, contentType, body) ==
    [kind |-> "PUT", url |-> url, contentType |-> contentType, body |-> body]

\* a status check that lets every 2xx status pass
PutOk_Any2xx(status) == status \in 200..299

PutOk(status) == status = 200

\* the inputs, and the answers of the service and of the storage
Digests == {"", "sha256-47DEQpj8HBSa+/TImW+5JCeuQeRkm5NMpJWZG3hSuFU="}
Bodies == {"", "gzip bytes", "more gzip bytes"}
UploadUrls(digest) ==
    { [loc |-> l, query |-> q] :
        l \in {"http://store/upload/x/" \o digest, "http://store/upload/y"},
        q \in {"", "X-Signature=s3cr3t"} }
Statuses == {200, 201, 204, 403, 500}

\* uploadTarball is called: it asks for a destination URL
CallUploadTarball ==
    /\ upPc = "idle"
    /\ \E digest \in Digests, body \in Bodies :
          /\ upArgs' = [digest |-> digest, body |-> body]
          /\ wire' = Append(wire, UploadURLRequest(digest))
    /\ upPc' = "url"
    /\ UNCHANGED <<upRes, upRet, loadVars, tarVars, convVars, normVars, trackVars>>

\* CreateUploadURL fails: uploadTarball returns the error
CreateUploadURLFails ==
    /\ upPc = "url"
    /\ upRes' = [upRes EXCEPT !.urlErr = "unavailable"]
    /\ upRet' = [url |-> NoUrl, err |-> "unavailable"]
    /\ upPc' = "done"
    /\ UNCHANGED <<upArgs, wire, loadVars, tarVars, convVars, normVars, trackVars>>

\* CreateUploadURL answers: uploadTarball PUTs the body to the URL
CreateUploadURLAnswers ==
    /\ upPc = "url"
    /\ \E url \in UploadUrls(upArgs.digest) :
          /\ upRes' = [upRes EXCEPT !.url = url]
          /\ wire' = Append(wire, Put(url, "application/gzip", upArgs.body))
    /\ upPc' = "put"
    /\ UNCHANGED <<upArgs, upRet, loadVars, tarVars, convVars, normVars, trackVars>>

\* the PUT fails without a response
PutFails ==
    /\ upPc = "put"
    /\ upRes' = [upRes EXCEPT !.putErr = "connection reset"]
    /\ upRet' = [url |-> NoUrl, err |-> "connection reset"]
    /\ upPc' = "done"
    /\ UNCHANGED <<upArgs, wire, loadVars, tarVars, convVars, normVars, trackVars>>

\* the PUT is answered with a status
PutAnswers ==
    /\ upPc = "put"
    /\ \E status \in Statuses :
          /\ upRes' = [upRes EXCEPT !.status = status]
          /\ upRet' = IF PutOk(status)
                      THEN [url |-> RemoveQueryParam(upRes.url), err |-> ""]
                      ELSE [url |-> NoUrl, err |-> "HTTP PUT failed with status code"]
    /\ upPc' = "done"
    /\ UNCHANGED <<upArgs, wire, loadVars, tarVars, convVars, normVars, trackVars>>

InitUpload ==
    /\ UploadIdle
    /\ LoadIdle
    /\ TarIdle
    /\ ConvIdle
    /\ NormIdle
    /\ TrackIdle

NextUpload ==
    \/ CallUploadTarball
    \/ CreateUploadURLFails
    \/ CreateUploadURLAnswers
    \/ PutFails
    \/ PutAnswers

SpecUpload == InitUpload /\ [][NextUpload]_vars

\* the PUT requests sent so far
PutsSent == SelectSeq(wire, LAMBDA msg : msg.kind = "PUT")

\* the destination URL was obtained
UrlObtained == upRes.url # NoUrl

\* C12: whatever the digest is, empty or not, uploadTarball first requests
\* a destination URL carrying the digest, then sends exactly one PUT of the
\* body with Content-Type application/gzip to that URL, and no PUT when the
\* URL request failed; it returns the URL without its query string exactly
\* when the URL request succeeded and the PUT status is 200, and an error
\* with an empty URL in every other case
Thm_C12_UploadProtocol ==
    /\ upPc # "idle" =>
          /\ wire[1] = [kind |-> "CreateUploadURL", digest |-> upArgs.digest]
          /\ \A i \in 2..Len(wire) : wire[i].kind = "PUT"
    /\ Len(PutsSent) = (IF UrlObtained THEN 1 ELSE 0)
    /\ \A i \in 1..Len(PutsSent) :
          /\ PutsSent[i].url = upRes.url
          /\ PutsSent[i].contentType = "application/gzip"
          /\ PutsSent[i].body = upArgs.body
    /\ upPc = "done" =>
          /\ upRet.err = "" <=> (UrlObtained /\ upRes.putErr = "" /\ upRes.status = 200)
          /\ upRet.err = "" =>
                /\ upRet.url.loc = upRes.url.loc
                /\ upRet.url.query = ""
          /\ upRet.err # "" => upRet.url = NoUrl
          /\ upRes.urlErr # "" => PutsSent = <<>>
    /\ upPc # "done" => upRet = [url |-> NoUrl, err |-> ""]

\* an upload with an empty digest has gone through the two requests and
\* returned the signed URL without its query string
Wit_C12_UploadProtocol ==
    /\ upPc = "done"
    /\ upArgs.digest = ""
    /\ Len(wire) = 2
    /\ upRes.url.query # ""
    /\ upRes.status = 200
    /\ upRet = [url |-> [loc |-> "http://store/upload/x/", query |-> ""], err |-> ""]

----------------------------------------------------------------------------
(* contextAwareWriter: cancellation *)

\* the bytes the Write calls have added to the buffer
RECURSIVE AddedBytes(_)
AddedBytes(ws) == IF ws = <<>> THEN 0 ELSE Head(ws).added + AddedBytes(Tail(ws))

\* a Write was issued after the context was cancelled
RefusedWrite == \E i \in 1..Len(writes) : writes[i].done

\* C13: every Write issued on the contextAwareWriter once the context is
\* cancelled returns 0 bytes and the context's error and forwards nothing, so
\* the buffer holds only the bytes of the writes made before the
\* cancellation, and a run of createTarball whose context is cancelled before
\* its last write on the archive returns an error and no archive
Thm_C13_CancelAbortsWrites ==
    /\ \A i \in 1..Len(writes) :
          writes[i].done =>
              /\ writes[i].n = 0
              /\ writes[i].err = "canceled"
              /\ writes[i].added = 0
              /\ i = Len(writes)
    /\ bufLen = AddedBytes(writes)
    /\ (pc = "done" /\ (ctxDone \/ RefusedWrite)) =>
          /\ retBuf.nil
          /\ retErr # ""

\* a run was cancelled after it had written entries: its last Write was
\* refused, the buffer kept what it held, and the run returned the error
Wit_C13_CancelAbortsWrites ==
    /\ pc = "done"
    /\ ctxDone
    /\ Len(writes) >= 3
    /\ writes[Len(writes)].done
    /\ writes[Len(writes)].n = 0
    /\ bufLen >= 2 * HeaderLen
    /\ retBuf.nil
    /\ retErr = "canceled"

----------------------------------------------------------------------------
(* track, flushAllTracking (cmd/cli/track.go) *)

\* a trackWG.Add that is left out
Add_Skipped(wg, delta) == wg

\* sync.WaitGroup: Add and Done
Add(wg, delta) == wg + delta
Done(wg) == Add(wg, -1)

\* track is called by the main goroutine: nothing when analytics is disabled,
\* else the client is connected if need be, the wait group is incremented
\* and the goroutine is started
Track ==
    /\ mainPc \in {"running", "flushed"}
    /\ calls < MaxTracks
    /\ calls' = calls + 1
    /\ IF disableAnalytics
       THEN UNCHANGED <<client, trackWG, goroutines>>
       ELSE /\ client' = "connected"
            /\ trackWG' = Add(trackWG, 1)
            /\ goroutines' = Append(goroutines, "ready")
    /\ UNCHANGED <<disableAnalytics, mainPc, flushedAt>>
    /\ UNCHANGED <<tarVars, convVars, normVars, loadVars, uploadVars>>

\* a goroutine is scheduled and invokes client.Track
GoTrack ==
    /\ \E g \in 1..Len(goroutines) :
          /\ goroutines[g] = "ready"
          /\ goroutines' = [goroutines EXCEPT ![g] = "tracking"]
    /\ UNCHANGED <<disableAnalytics, client, trackWG, calls, mainPc, flushedAt>>
    /\ UNCHANGED <<tarVars, convVars, normVars, loadVars, uploadVars>>

\* client.Track returns
TrackReturns ==
    /\ \E g \in 1..Len(goroutines) :
          /\ goroutines[g] = "tracking"
          /\ goroutines' = [goroutines EXCEPT ![g] = "returned"]
    /\ UNCHANGED <<disableAnalytics, client, trackWG, calls, mainPc, flushedAt>>
    /\ UNCHANGED <<tarVars, convVars, normVars, loadVars, uploadVars>>

\* the deferred trackWG.Done runs and the goroutine ends
TrackDone ==
    /\ \E g \in 1..Len(goroutines) :
          /\ goroutines[g] = "returned"
          /\ goroutines' = [goroutines EXCEPT ![g] = "ended"]
    /\ trackWG' = Done(trackWG)
    /\ UNCHANGED <<disableAnalytics, client, calls, mainPc, flushedAt>>
    /\ UNCHANGED <<tarVars, convVars, normVars, loadVars, uploadVars>>

\* flushAllTracking is called: the main goroutine enters trackWG.Wait
FlushAllTracking ==
    /\ mainPc = "running"
    /\ mainPc' = "waiting"
    /\ flushedAt' = Len(goroutines)
    /\ UNCHANGED <<disableAnalytics, client, trackWG, calls, goroutines>>
    /\ UNCHANGED <<tarVars, convVars, normVars, loadVars, uploadVars>>

\* trackWG.Wait returns: the counter is zero
WaitReturns ==
    /\ mainPc = "waiting"
    /\ trackWG = 0
    /\ mainPc' = "flushed"
    /\ UNCHANGED <<disableAnalytics, client, trackWG, calls, goroutines, flushedAt>>
    /\ UNCHANGED <<tarVars, convVars, normVars, loadVars, uploadVars>>

InitTrack ==
    /\ disableAnalytics \in BOOLEAN
    /\ client = "nil"
    /\ trackWG = 0
    /\ calls = 0
    /\ goroutines = <<>>
    /\ mainPc = "running"
    /\ flushedAt = 0
    /\ TarIdle
    /\ ConvIdle
    /\ NormIdle
    /\ LoadIdle
    /\ UploadIdle

NextTrack ==
    \/ Track
    \/ GoTrack
    \/ TrackReturns
    \/ TrackDone
    \/ FlushAllTracking
    \/ WaitReturns

SpecTrack == InitTrack /\ [][NextTrack]_vars

\* the goroutines that have not ended
Running == { g \in 1..Len(goroutines) : goroutines[g] # "ended" }

\* C14: flushAllTracking returns only after client.Track has returned in the
\* goroutine of every track call made before it was called, whatever the
\* interleaving; the wait group's counter is the number of goroutines
\* started and not ended and is never negative; with analytics disabled
\* track starts no goroutine and the counter stays zero, so that
\* flushAllTracking does not wait
Thm_C14_FlushWaits ==
    /\ trackWG >= 0
    /\ trackWG = Cardinality(Running)
    /\ mainPc = "flushed" =>
          \A g \in 1..flushedAt : goroutines[g] = "ended"
    /\ disableAnalytics =>
          /\ goroutines = <<>>
          /\ trackWG = 0
    /\ ~disableAnalytics => Len(goroutines) = calls

\* flushAllTracking has returned after two track calls whose goroutines have
\* ended, and a later call's goroutine is still in client.Track
Wit_C14_FlushWaits ==
    /\ ~disableAnalytics
    /\ mainPc = "flushed"
    /\ flushedAt = 2
    /\ Len(goroutines) = 3
    /\ goroutines[1] = "ended" /\ goroutines[2] = "ended"
    /\ goroutines[3] = "tracking"

====
